---- MODULE Spec2Model ----
(***************************************************************************)
(* Int64Profiler (src/installation/int64_ops.cpp): a Pin tool that counts  *)
(* 64-bit scalar integer arithmetic per thread, gated by a region that is  *)
(* selected on the command line (whole program, address, start/stop        *)
(* markers), and sums the per-thread blocks when the program ends.         *)
(*                                                                         *)
(* The target program is an input: a set of static instruction            *)
(* descriptors, the number of threads it creates and how deep its calls   *)
(* nest.  Pin's instrumentation-time callbacks are the operators           *)
(* InstrumentMarkerRtn / InstrumentAddressRegion / InstrumentArith, which  *)
(* give, for a static instruction, the analysis calls that run before it;  *)
(* the analysis routines and the thread/fini callbacks are the actions.    *)
(*                                                                         *)
(* The classifier of the packed-aware tool (src/int64_ops.cpp) is the      *)
(* operator Instruction.  ClassifySpec runs both tools' instrumentation    *)
(* callbacks on one instruction descriptor drawn from Descriptors.         *)
(* RootSpec is a run of a program of packed adds and subtracts under the   *)
(* packed-aware tool, its analysis routines included.                      *)
(***************************************************************************)
EXTENDS Integers, Sequences, FiniteSets, TLC

\* ------------------------------------------------------------- bounds
\* Threads of the thread-spawning target program.
NThreads == 3
\* Deepest call nesting of the single-threaded target program.
MaxDepth == 2
\* Classified instructions the single-threaded target program executes.
MaxCount == 2
\* Memory operands of an instruction descriptor handed to the classifiers.
MaxMemOps == 1

\* ------------------------------------------------------------ strings
\* std::string::find(pat): the lowest 0-based position at which pat occurs,
\* -1 (for npos) when it occurs nowhere.
Find(s, pat) ==
    LET hits == { i \in 0..(Len(s) - Len(pat)) :
                    SubSeq(s, i + 1, i + Len(pat)) = pat }
    IN  IF hits = {} THEN -1
        ELSE CHOOSE i \in hits : \A j \in hits : i <= j

\* std::string::substr(pos): the characters from 0-based position pos on.
Substr(s, pos) ==
    IF pos >= Len(s) THEN "" ELSE SubSeq(s, pos + 1, Len(s))

\* The value of one character as a digit; 99 for a character that is none.
DigitVal(c) ==
    CASE c = "0" -> 0 [] c = "1" -> 1 [] c = "2" -> 2 [] c = "3" -> 3
      [] c = "4" -> 4 [] c = "5" -> 5 [] c = "6" -> 6 [] c = "7" -> 7
      [] c = "8" -> 8 [] c = "9" -> 9
      [] c \in {"a", "A"} -> 10 [] c \in {"b", "B"} -> 11
      [] c \in {"c", "C"} -> 12 [] c \in {"d", "D"} -> 13
      [] c \in {"e", "E"} -> 14 [] c \in {"f", "F"} -> 15
      [] OTHER -> 99

CharAt(s, i) == IF i <= Len(s) THEN SubSeq(s, i, i) ELSE ""

RECURSIVE ParseDigits(_, _, _, _)
\* The longest run of base-`base` digits of s from position i, as a number.
ParseDigits(s, i, base, acc) ==
    IF i > Len(s) \/ DigitVal(CharAt(s, i)) >= base THEN acc
    ELSE ParseDigits(s, i + 1, base, acc * base + DigitVal(CharAt(s, i)))

\* strtoull(s, nullptr, 0): "0x"/"0X" before a hex digit selects base 16, any
\* other leading "0" base 8, else base 10; conversion stops at the first
\* character that is no digit of the base, and no digits at all give 0.
\* (The knob values of the model hold no white space or sign and stay far
\* below 2^64.)
StrToULL(s) ==
    LET hex  == /\ CharAt(s, 1) = "0"
                /\ CharAt(s, 2) \in {"x", "X"}
                /\ DigitVal(CharAt(s, 3)) < 16
        base == IF hex THEN 16 ELSE IF CharAt(s, 1) = "0" THEN 8 ELSE 10
    IN  ParseDigits(s, IF hex THEN 3 ELSE 1, base, 0)

\* ------------------------------------------------ instruction descriptors
\* What Pin's INS_* / REG_* queries answer for one static instruction:
\*   addr  INS_Address           rtn   RTN_Name of the enclosing routine
\*   head  first instruction of its routine (where RTN IPOINT_BEFORE runs)
\*   opc   INS_Opcode            ops   operand kinds, "reg" | "mem" | "imm"
\*   rregs/wregs  INS_RegR / INS_RegW     mem  memory operands
\*   sr/sw INS_IsStackRead / INS_IsStackWrite
MkIns(addr, rtn, head, opc, ops, rregs, wregs, mem, sr, sw) ==
    [addr |-> addr, rtn |-> rtn, head |-> head, opc |-> opc, ops |-> ops,
     rregs |-> rregs, wregs |-> wregs, mem |-> mem, sr |-> sr, sw |-> sw]

MemOp(r, w, size) == [read |-> r, written |-> w, size |-> size]

\* The 18 counter fields of struct Cnts.
Buckets ==
    {"add_rr", "sub_rr", "adc_rr", "sbb_rr", "mul_rr", "mulx_rr", "adcx_rr",
     "adox_rr", "div_rr",
     "add_rm", "sub_rm", "adc_rm", "sbb_rm", "mul_rm", "mulx_rm", "adcx_rm",
     "adox_rm", "div_rm"}

GR64 ==
    {"RAX", "RBX", "RCX", "RDX", "RSI", "RDI", "RSP", "RBP", "R8", "R9"}

\* Is64Gpr that takes the 32-bit registers too.
Is64Gpr_AnyWidth(r) == r \in GR64 \cup {"EAX", "EBX"}

Is64Gpr(r) == r \in GR64
IsStack(r) == r = "RSP" \/ r = "RBP"

\* HasImm that looks at the second operand only.
HasImm_SecondOnly(ins) == Len(ins.ops) >= 2 /\ ins.ops[2] = "imm"

HasImm(ins) == \E i \in 1..Len(ins.ops) : ins.ops[i] = "imm"

\* TouchesStack that looks at the registers only.
TouchesStack_RegsOnly(ins) ==
    \/ \E i \in 1..Len(ins.rregs) : IsStack(ins.rregs[i])
    \/ \E i \in 1..Len(ins.wregs) : IsStack(ins.wregs[i])

TouchesStack(ins) ==
    \/ \E i \in 1..Len(ins.rregs) : IsStack(ins.rregs[i])
    \/ \E i \in 1..Len(ins.wregs) : IsStack(ins.wregs[i])
    \/ ins.sr \/ ins.sw

\* Has64R that looks at the first register read only.
Has64R_FirstOnly(ins) ==
    Len(ins.rregs) >= 1
        /\ Is64Gpr(ins.rregs[1]) /\ ~IsStack(ins.rregs[1])

Has64R(ins) ==
    \E i \in 1..Len(ins.rregs) :
        Is64Gpr(ins.rregs[i]) /\ ~IsStack(ins.rregs[i])

Has64W(ins) ==
    \E i \in 1..Len(ins.wregs) :
        Is64Gpr(ins.wregs[i]) /\ ~IsStack(ins.wregs[i])

MemRead8(ins) ==
    \E i \in 1..Len(ins.mem) : ins.mem[i].read /\ ins.mem[i].size = 8

MemWrite8(ins) ==
    \E i \in 1..Len(ins.mem) : ins.mem[i].written /\ ins.mem[i].size = 8

IsALU64(opc) ==
    opc \in {"ADD", "SUB", "ADC", "SBB", "IMUL", "MUL", "MULX", "ADCX",
             "ADOX", "IDIV", "DIV"}

\* IsRegReg64 without the test for memory operands.
IsRegReg64_AllowsMem(ins) ==
    /\ ~HasImm(ins) /\ ~TouchesStack(ins)
    /\ Has64R(ins) /\ Has64W(ins)

IsRegReg64(ins) ==
    /\ Len(ins.mem) = 0
    /\ ~HasImm(ins) /\ ~TouchesStack(ins)
    /\ Has64R(ins) /\ Has64W(ins)

\* IsRegMem64 whose load rule does not ask for the absence of a store.
IsRegMem64_LoadIgnoresStore(ins) ==
    IF HasImm(ins) \/ TouchesStack(ins) THEN FALSE
    ELSE LET mr  == MemRead8(ins) /\ Has64W(ins)
             rmw == MemWrite8(ins) /\ Has64R(ins)
         IN  mr \/ rmw

IsRegMem64(ins) ==
    IF HasImm(ins) \/ TouchesStack(ins) THEN FALSE
    ELSE LET mr  == MemRead8(ins) /\ Has64W(ins) /\ ~MemWrite8(ins)
             rmw == MemWrite8(ins) /\ Has64R(ins)
         IN  mr \/ rmw

INS_IsRet(ins) == ins.opc \in {"RET_NEAR", "RET_FAR"}

\* No analysis call.
NoCall == "none"

\* InstrumentArith: the counter stub inserted before ins, or NoCall.
InstrumentArith(ins) ==
    IF ~IsALU64(ins.opc) THEN NoCall
    ELSE IF HasImm(ins) THEN NoCall
    ELSE LET rr == IsRegReg64(ins)
             rm == ~rr /\ IsRegMem64(ins)
             sfx == IF rr THEN "_rr" ELSE "_rm"
         IN  IF ~rr /\ ~rm THEN NoCall
             ELSE CASE ins.opc = "ADD"  -> "add" \o sfx
                    [] ins.opc = "SUB"  -> "sub" \o sfx
                    [] ins.opc = "ADC"  -> "adc" \o sfx
                    [] ins.opc = "SBB"  -> "sbb" \o sfx
                    [] ins.opc \in {"MUL", "IMUL"} -> "mul" \o sfx
                    [] ins.opc = "MULX" -> "mulx" \o sfx
                    [] ins.opc = "ADCX" -> "adcx" \o sfx
                    [] ins.opc = "ADOX" -> "adox" \o sfx
                    [] ins.opc \in {"DIV", "IDIV"} -> "div" \o sfx
                    [] OTHER -> NoCall

\* ------------------------------------- the packed-aware tool (src/int64_ops.cpp)
\* Policy switches (constexpr).
kExcludeImmediates == TRUE
kExcludeStack == TRUE
kCountMemDestRmw == TRUE

\* Vector and mask registers, next to the general ones.
MMRegs == {"MM0"}
XMMRegs == {"XMM0", "XMM1"}
YMMRegs == {"YMM0"}
ZMMRegs == {"ZMM0", "ZMM1"}
KRegs == {"K1", "K2"}

REG_is_k_mask(r) == r \in KRegs

\* REG_Size: bytes.
REG_Size(r) ==
    CASE r \in MMRegs -> 8 [] r \in XMMRegs -> 16 [] r \in YMMRegs -> 32
      [] r \in ZMMRegs -> 64 [] r \in GR64 -> 8 [] r \in KRegs -> 8
      [] OTHER -> 4

REG_INVALID_ == "REG_INVALID_"

IsStackReg(r) == r = "RSP" \/ r = "RBP"

Is64ArithOpcode(opc) ==
    opc = "ADD" \/ opc = "SUB" \/ opc = "IMUL" \/ opc = "MUL"
        \/ opc = "IDIV" \/ opc = "DIV"

IsSimdAddQ(opc) == opc = "PADDQ" \/ opc = "VPADDQ"
IsSimdSubQ(opc) == opc = "PSUBQ" \/ opc = "VPSUBQ"

HasImmediate(ins) ==
    IF ~kExcludeImmediates THEN FALSE
    ELSE \E i \in 1..Len(ins.ops) : ins.ops[i] = "imm"

\* TouchesStack of the packed-aware tool.
Root_TouchesStack(ins) ==
    IF ~kExcludeStack THEN FALSE
    ELSE \/ \E i \in 1..Len(ins.rregs) : IsStackReg(ins.rregs[i])
         \/ \E i \in 1..Len(ins.wregs) : IsStackReg(ins.wregs[i])
         \/ ins.sr \/ ins.sw

Has64RegRead(ins) ==
    \E i \in 1..Len(ins.rregs) :
        Is64Gpr(ins.rregs[i]) /\ ~IsStackReg(ins.rregs[i])

Has64RegWrite(ins) ==
    \E i \in 1..Len(ins.wregs) :
        Is64Gpr(ins.wregs[i]) /\ ~IsStackReg(ins.wregs[i])

HasMemRead8(ins) ==
    \E i \in 1..Len(ins.mem) : ins.mem[i].read /\ ins.mem[i].size = 8

HasMemWrite8(ins) ==
    \E i \in 1..Len(ins.mem) : ins.mem[i].written /\ ins.mem[i].size = 8

RECURSIVE MaxVecBytes(_, _)
\* The loop of QwordLanesWritten over the first n written registers.
MaxVecBytes(wregs, n) ==
    IF n = 0 THEN 0
    ELSE LET m == MaxVecBytes(wregs, n - 1)
             r == wregs[n]
         IN  IF r \in MMRegs \cup XMMRegs \cup YMMRegs \cup ZMMRegs
                /\ REG_Size(r) > m
             THEN REG_Size(r) ELSE m

QwordLanesWritten(ins) ==
    LET maxBytes == MaxVecBytes(ins.wregs, Len(ins.wregs))
    IN  (IF maxBytes = 0 THEN 16 ELSE maxBytes) \div 8

FirstKMaskRead(ins) ==
    LET ks == { i \in 1..Len(ins.rregs) : REG_is_k_mask(ins.rregs[i]) }
    IN  IF ks = {} THEN REG_INVALID_
        ELSE ins.rregs[CHOOSE i \in ks : \A j \in ks : i <= j]

IsRegReg64Arith(ins) ==
    IF Len(ins.mem) # 0 THEN FALSE
    ELSE IF HasImmediate(ins) THEN FALSE
    ELSE IF Root_TouchesStack(ins) THEN FALSE
    ELSE Has64RegRead(ins) /\ Has64RegWrite(ins)

IsRegMem64Arith(ins) ==
    IF HasImmediate(ins) THEN FALSE
    ELSE IF Root_TouchesStack(ins) THEN FALSE
    ELSE LET mem_r8 == HasMemRead8(ins)
             mem_w8 == HasMemWrite8(ins)
         IN  IF mem_r8 /\ Has64RegWrite(ins) /\ ~mem_w8 THEN TRUE
             ELSE IF kCountMemDestRmw /\ mem_w8 /\ Has64RegRead(ins) THEN TRUE
             ELSE FALSE

\* An analysis call with its IARG_UINT32 lanes and IARG_REG_VALUE register.
RootCall(f, lanes, kmask) == [f |-> f, lanes |-> lanes, kmask |-> kmask]

NoRootCall == RootCall(NoCall, 0, REG_INVALID_)

\* Instruction: the analysis call inserted before ins, or none.
Instruction(ins) ==
    LET opc == ins.opc
    IN  IF IsSimdAddQ(opc) \/ IsSimdSubQ(opc)
        THEN LET lanes  == QwordLanesWritten(ins)
                 kmask  == FirstKMaskRead(ins)
                 masked == kmask # REG_INVALID_
             IN  IF IsSimdAddQ(opc)
                 THEN IF masked THEN RootCall("SimdAddQMasked", lanes, kmask)
                      ELSE RootCall("SimdAddQ", lanes, REG_INVALID_)
                 ELSE IF masked THEN RootCall("SimdSubQMasked", lanes, kmask)
                      ELSE RootCall("SimdSubQ", lanes, REG_INVALID_)
        ELSE IF ~Is64ArithOpcode(opc) THEN NoRootCall
        ELSE LET rr == IsRegReg64Arith(ins)
                 rm == ~rr /\ IsRegMem64Arith(ins)
             IN  IF ~rr /\ ~rm THEN NoRootCall
                 ELSE CASE opc = "ADD" ->
                             RootCall(IF rr THEN "AddRR" ELSE "AddRM", 0,
                                      REG_INVALID_)
                        [] opc = "SUB" ->
                             RootCall(IF rr THEN "SubRR" ELSE "SubRM", 0,
                                      REG_INVALID_)
                        [] opc \in {"IMUL", "MUL"} ->
                             RootCall(IF rr THEN "MulRR" ELSE "MulRM", 0,
                                      REG_INVALID_)
                        [] opc \in {"IDIV", "DIV"} ->
                             RootCall(IF rr THEN "DivRR" ELSE "DivRM", 0,
                                      REG_INVALID_)
                        [] OTHER -> NoRootCall

\* The fields of struct Cnts of the packed-aware tool.
RootFields ==
    {"add_rr", "sub_rr", "mul_rr", "div_rr",
     "add_rm", "sub_rm", "mul_rm", "div_rm",
     "simd_addq_insn", "simd_addq_ops", "simd_subq_insn", "simd_subq_ops"}

\* Cnts(): every field 0.
Root_ZeroCnts == [f \in RootFields |-> 0]

\* The analysis routines, each on the Cnts c of the executing thread.
AddRR(c) == [c EXCEPT !.add_rr = @ + 1]
SubRR(c) == [c EXCEPT !.sub_rr = @ + 1]
MulRR(c) == [c EXCEPT !.mul_rr = @ + 1]
DivRR(c) == [c EXCEPT !.div_rr = @ + 1]
AddRM(c) == [c EXCEPT !.add_rm = @ + 1]
SubRM(c) == [c EXCEPT !.sub_rm = @ + 1]
MulRM(c) == [c EXCEPT !.mul_rm = @ + 1]
DivRM(c) == [c EXCEPT !.div_rm = @ + 1]

\* SimdAddQ that leaves the instruction counter alone.
SimdAddQ_OpsOnly(c, lanes) == [c EXCEPT !.simd_addq_ops = @ + lanes]

SimdAddQ(c, lanes) ==
    [c EXCEPT !.simd_addq_insn = @ + 1, !.simd_addq_ops = @ + lanes]

SimdSubQ(c, lanes) ==
    [c EXCEPT !.simd_subq_insn = @ + 1, !.simd_subq_ops = @ + lanes]

RECURSIVE CountLanes_FromBitOne(_, _)
\* The loop of the masked routines with i running from 1 to n.
CountLanes_FromBitOne(m, n) ==
    IF n = 0 THEN 0
    ELSE CountLanes_FromBitOne(m, n - 1) + ((m \div 2^n) % 2)

RECURSIVE CountLanes(_, _)
\* The loop of the masked routines over i = 0 .. n-1:
\* active += (m >> i) & 1u.
CountLanes(m, n) ==
    IF n = 0 THEN 0
    ELSE CountLanes(m, n - 1) + ((m \div 2^(n - 1)) % 2)

SimdAddQMasked(c, lanes, kbits) ==
    LET active == CountLanes(kbits, lanes)
    IN  [c EXCEPT !.simd_addq_insn = @ + 1, !.simd_addq_ops = @ + active]

SimdSubQMasked(c, lanes, kbits) ==
    LET active == CountLanes(kbits, lanes)
    IN  [c EXCEPT !.simd_subq_insn = @ + 1, !.simd_subq_ops = @ + active]

\* The analysis call inserted by Instruction, run on c; kv gives the value
\* of every mask register of the executing thread (IARG_REG_VALUE).
Root_AnalysisCall(c, call, kv) ==
    CASE call.f = "AddRR" -> AddRR(c) [] call.f = "SubRR" -> SubRR(c)
      [] call.f = "MulRR" -> MulRR(c) [] call.f = "DivRR" -> DivRR(c)
      [] call.f = "AddRM" -> AddRM(c) [] call.f = "SubRM" -> SubRM(c)
      [] call.f = "MulRM" -> MulRM(c) [] call.f = "DivRM" -> DivRM(c)
      [] call.f = "SimdAddQ" -> SimdAddQ(c, call.lanes)
      [] call.f = "SimdSubQ" -> SimdSubQ(c, call.lanes)
      [] call.f = "SimdAddQMasked" ->
            SimdAddQMasked(c, call.lanes, kv[call.kmask])
      [] call.f = "SimdSubQMasked" ->
            SimdSubQMasked(c, call.lanes, kv[call.kmask])
      [] OTHER -> c

\* ------------------------------------------------------ target programs
RetIns(addr, rtn) ==
    MkIns(addr, rtn, FALSE, "RET_NEAR", <<>>, <<"RSP">>, <<"RSP">>,
          <<MemOp(TRUE, FALSE, 8)>>, TRUE, FALSE)

\* start_roi: add rax, rbx ; ret
\* stop_roi:  push rbp ; sub rax, [rcx] ; ret
\* work (the function every thread runs): imul rax, rbx
RoiIns ==
    { MkIns(16, "start_roi", TRUE, "ADD", <<"reg", "reg">>,
            <<"RAX", "RBX">>, <<"RAX", "RFLAGS">>, <<>>, FALSE, FALSE),
      RetIns(19, "start_roi"),
      MkIns(32, "stop_roi", TRUE, "PUSH", <<"reg">>,
            <<"RBP", "RSP">>, <<"RSP">>, <<MemOp(FALSE, TRUE, 8)>>,
            FALSE, TRUE),
      MkIns(33, "stop_roi", FALSE, "SUB", <<"reg", "mem">>,
            <<"RAX", "RCX">>, <<"RAX", "RFLAGS">>,
            <<MemOp(TRUE, FALSE, 8)>>, FALSE, FALSE),
      RetIns(36, "stop_roi"),
      MkIns(64, "work", FALSE, "IMUL", <<"reg", "reg">>,
            <<"RAX", "RBX">>, <<"RAX", "RFLAGS">>, <<>>, FALSE, FALSE) }

ALUOpcodes ==
    <<"ADD", "SUB", "ADC", "SBB", "IMUL", "MUL", "MULX", "ADCX", "ADOX",
      "IDIV", "DIV">>

\* One register-register and one load form of every tracked opcode, all in
\* the thread function:  op rax, rbx  and  op rax, [rcx].
AllIns ==
    { MkIns(128 + 8 * k, "work", FALSE, ALUOpcodes[k], <<"reg", "reg">>,
            <<"RAX", "RBX">>, <<"RAX", "RFLAGS">>, <<>>, FALSE, FALSE)
        : k \in 1..Len(ALUOpcodes) }
    \cup
    { MkIns(132 + 8 * k, "work", FALSE, ALUOpcodes[k], <<"reg", "mem">>,
            <<"RAX", "RCX">>, <<"RAX", "RFLAGS">>,
            <<MemOp(TRUE, FALSE, 8)>>, FALSE, FALSE)
        : k \in 1..Len(ALUOpcodes) }

\* The thread function of the thread-spawning program: imul rax, rbx.
WorkIns ==
    { MkIns(64, "work", FALSE, "IMUL", <<"reg", "reg">>,
            <<"RAX", "RBX">>, <<"RAX", "RFLAGS">>, <<>>, FALSE, FALSE) }

\* A loop around  add rax, rbx  whose other instructions get no bucket:
\* add rax, 8 ; add eax, ebx ; add rbp, rbx ; mov rax, [rcx] ; inc rcx.
AddLoopIns ==
    { MkIns(256, "work", FALSE, "ADD", <<"reg", "reg">>,
            <<"RAX", "RBX">>, <<"RAX", "RFLAGS">>, <<>>, FALSE, FALSE),
      MkIns(259, "work", FALSE, "ADD", <<"reg", "imm">>,
            <<"RAX">>, <<"RAX", "RFLAGS">>, <<>>, FALSE, FALSE),
      MkIns(263, "work", FALSE, "ADD", <<"reg", "reg">>,
            <<"EAX", "EBX">>, <<"EAX", "RFLAGS">>, <<>>, FALSE, FALSE),
      MkIns(265, "work", FALSE, "ADD", <<"reg", "reg">>,
            <<"RBP", "RBX">>, <<"RBP", "RFLAGS">>, <<>>, FALSE, FALSE),
      MkIns(268, "work", FALSE, "MOV", <<"reg", "mem">>,
            <<"RCX">>, <<"RAX">>, <<MemOp(TRUE, FALSE, 8)>>, FALSE, FALSE),
      MkIns(271, "work", FALSE, "INC", <<"reg">>,
            <<"RCX">>, <<"RCX", "RFLAGS">>, <<>>, FALSE, FALSE) }

\* The values the program loads into a mask register: 0b1011, 0b11011 and
\* 0b100000001.
MaskValues == {11, 27, 257}

\* Packed adds and subtracts of every width, plain and under mask k1, a
\* packed add for which no vector register write is reported, a scalar add
\* and the load of k1 (address, opcode, registers written, registers read):
\*   paddq mm0, mm0 ; paddq xmm0, xmm1 ; vpaddq ymm0, ymm0, ymm0 ;
\*   vpaddq ymm0{k1}, ymm0, ymm0 ; vpaddq {k1} ;
\*   vpsubq zmm0, zmm0, zmm1 ; vpsubq zmm0{k1}, zmm0, zmm1 ;
\*   add rax, rbx ; kmovq k1, rax
PackedIns ==
    { MkIns(a[1], "work", FALSE, a[2], <<"reg", "reg">>, a[4], a[3], <<>>,
            FALSE, FALSE) :
        a \in { <<512, "PADDQ", <<"MM0">>, <<"MM0">> >>,
                <<516, "PADDQ", <<"XMM0">>, <<"XMM0", "XMM1">> >>,
                <<520, "VPADDQ", <<"YMM0">>, <<"YMM0">> >>,
                <<524, "VPADDQ", <<"YMM0">>, <<"YMM0", "K1">> >>,
                <<530, "VPADDQ", <<>>, <<"K1">> >>,
                <<536, "VPSUBQ", <<"ZMM0">>, <<"ZMM0", "ZMM1">> >>,
                <<540, "VPSUBQ", <<"ZMM0">>, <<"ZMM0", "ZMM1", "K1">> >>,
                <<546, "ADD", <<"RAX", "RFLAGS">>, <<"RAX", "RBX">> >>,
                <<549, "KMOVQ", <<"K1">>, <<"RAX">> >> } }

\* A target program: its instructions, the routine its threads run, the
\* number of threads it creates, the deepest nesting of its calls and the
\* number of classified instructions it executes before it ends.
MkProg(ins, threads, depth, len) ==
    [ins |-> ins, base |-> "work", threads |-> threads, depth |-> depth,
     len |-> len]

\* The target programs, by name:
\*   nested   single-threaded, with nested (re-entrant) calls
\*   threads  two threads, the thread function calls the routines
\*   spawn    the main thread creates the other threads, all of them run
\*            one multiplication
\*   arith    two threads of straight-line arithmetic of every kind
\*   addloop  single-threaded, one add rax, rbx in a loop
\*   packed   two threads of packed adds and subtracts
\*   empty    no arithmetic at all
ProgramNamed(name) ==
    CASE name = "nested"  -> MkProg(RoiIns, 1, MaxDepth, MaxCount)
      [] name = "threads" -> MkProg(RoiIns, 2, 1, 2)
      [] name = "spawn"   -> MkProg(WorkIns, NThreads, 0, 1)
      [] name = "arith"   -> MkProg(AllIns, 2, 0, 2)
      [] name = "addloop" -> MkProg(AddLoopIns, 1, 0, MaxCount)
      [] name = "packed"  -> MkProg(PackedIns, 2, 0, 2)
      [] name = "empty"   -> MkProg({}, 1, 0, 0)

\* ------------------------------------------------------------ knob values
MkKnobs(addr, start, stop) == [addr |-> addr, start |-> start, stop |-> stop]

\* Knob defaults (KNOB declarations).
DefaultKnobs == MkKnobs("0x0", "", "")

\* Whole program; the address of start_roi; the address of its RET; the
\* markers start_roi/stop_roi; a stop marker and a start marker that name
\* no routine.
RunKnobs ==
    { DefaultKnobs,
      MkKnobs("0x10", "", ""),
      MkKnobs("0x13", "", ""),
      MkKnobs("0x0", "start_roi", ""),
      MkKnobs("0x0", "start_roi", "halt"),
      MkKnobs("0x0", "begin_roi", "") }

\* Address region, marker region.
ThreadKnobs == { MkKnobs("0x10", "", ""), MkKnobs("0x0", "start_roi", "") }

AddrValues == {"0x0", "0", "0x00", "00", "0X0", "0x10", "16", "020"}

StartValues ==
    {"", "start_roi", "begin_roi", "start_", "begin_", "start", "go",
     "restart_x", "stop_profiling"}

StopValues == {"", "halt", "stop_roi"}

AllKnobs ==
    { MkKnobs(a, s, e) : a \in AddrValues, s \in StartValues,
                         e \in StopValues }

\* The runs explored: a target program and a command line.
Scenarios ==
    ({"nested"} \X RunKnobs)
        \cup ({"threads"} \X ThreadKnobs)
        \cup ({"arith"} \X {DefaultKnobs})
        \cup ({"addloop"} \X {DefaultKnobs})
        \cup ({"spawn"} \X {DefaultKnobs})
        \cup ({"empty"} \X AllKnobs)

\* ------------------------------------------- descriptors to be classified
\* The tracked scalar opcodes, three scalar opcodes that are not tracked
\* and the packed quadword adds and subtracts.
Opcodes ==
    {"ADD", "SUB", "ADC", "SBB", "IMUL", "MUL", "MULX", "ADCX", "ADOX",
     "IDIV", "DIV", "MOV", "INC", "LEA",
     "PADDQ", "VPADDQ", "PSUBQ", "VPSUBQ"}

\* Operand kinds: no immediate, an immediate second, an immediate third.
OperandKinds == {<<"reg", "reg">>, <<"reg", "imm">>, <<"reg", "reg", "imm">>}

\* Registers read: none; two 64-bit; a 32-bit; a 32-bit before a 64-bit; a
\* stack register among them; a vector register; a vector register under a
\* mask.
RegReads ==
    {<<>>, <<"RAX", "RBX">>, <<"EAX">>, <<"EAX", "RBX">>, <<"RAX", "RSP">>,
     <<"XMM1">>, <<"ZMM1", "K1">>}

\* Registers written: flags only; a 64-bit; a 32-bit; the frame pointer;
\* a 64-bit and the stack pointer; a 128-bit and a 512-bit vector register.
RegWrites ==
    {<<"RFLAGS">>, <<"RAX", "RFLAGS">>, <<"EAX", "RFLAGS">>, <<"RBP">>,
     <<"RAX", "RSP">>, <<"XMM0">>, <<"ZMM0">>}

\* One memory operand: an 8-byte load, store, read-modify-write; a 4-byte
\* load.
MemKinds ==
    {MemOp(TRUE, FALSE, 8), MemOp(FALSE, TRUE, 8), MemOp(TRUE, TRUE, 8),
     MemOp(TRUE, FALSE, 4)}

RECURSIVE MemSeqs(_)
\* The operand lists of at most n memory operands.
MemSeqs(n) ==
    IF n = 0 THEN {<<>>}
    ELSE MemSeqs(n - 1)
           \cup { Append(m, k) : m \in { q \in MemSeqs(n - 1) : Len(q) = n - 1 },
                                 k \in MemKinds }

\* INS_IsStackRead / INS_IsStackWrite.
StackRefs == {<<FALSE, FALSE>>, <<TRUE, FALSE>>, <<FALSE, TRUE>>}

Descriptors ==
    { MkIns(0, "", FALSE, opc, ops, rr, wr, m, st[1], st[2]) :
        opc \in Opcodes, ops \in OperandKinds, rr \in RegReads,
        wr \in RegWrites, m \in MemSeqs(MaxMemOps), st \in StackRefs }

\* ------------------------------------------- the classification rules
\* The packed quadword adds and subtracts.
PackedOpcode(opc) == opc \in {"PADDQ", "VPADDQ", "PSUBQ", "VPSUBQ"}

\* The scalar opcodes to be tracked.
ScalarOpcode(opc) ==
    opc \in {"ADD", "SUB", "ADC", "SBB", "MUL", "IMUL", "MULX", "ADCX",
             "ADOX", "DIV", "IDIV"}

\* The scalar opcodes the packed-aware tool has counters for.
RootOpcode(opc) == opc \in {"ADD", "SUB", "MUL", "IMUL", "DIV", "IDIV"}

\* The family of a scalar opcode, as the region tool names its counters:
\* IMUL with MUL, IDIV with DIV, every other opcode its own family.
FamilyOf(opc) ==
    CASE opc = "ADD" -> "add" [] opc = "SUB" -> "sub" [] opc = "ADC" -> "adc"
      [] opc = "SBB" -> "sbb" [] opc \in {"MUL", "IMUL"} -> "mul"
      [] opc = "MULX" -> "mulx" [] opc = "ADCX" -> "adcx"
      [] opc = "ADOX" -> "adox" [] opc \in {"DIV", "IDIV"} -> "div"

\* The same as the packed-aware tool names its analysis routines.
RootFamilyOf(opc) ==
    CASE opc = "ADD" -> "Add" [] opc = "SUB" -> "Sub" [] opc = "ADC" -> "Adc"
      [] opc = "SBB" -> "Sbb" [] opc \in {"MUL", "IMUL"} -> "Mul"
      [] opc = "MULX" -> "Mulx" [] opc = "ADCX" -> "Adcx"
      [] opc = "ADOX" -> "Adox" [] opc \in {"DIV", "IDIV"} -> "Div"

RegRegBuckets == { b \in Buckets : Substr(b, Len(b) - 3) = "_rr" }
RegMemBuckets == { b \in Buckets : Substr(b, Len(b) - 3) = "_rm" }
RootRegReg == {"AddRR", "SubRR", "MulRR", "DivRR"}
RootRegMem == {"AddRM", "SubRM", "MulRM", "DivRM"}
SimdCalls == {"SimdAddQ", "SimdSubQ", "SimdAddQMasked", "SimdSubQMasked"}

\* 64-bit general registers other than the stack and frame pointer.
NonStackGpr64 == {"RAX", "RBX", "RCX", "RDX", "RSI", "RDI", "R8", "R9"}

ReadsGpr64(d) == \E i \in DOMAIN d.rregs : d.rregs[i] \in NonStackGpr64
WritesGpr64(d) == \E i \in DOMAIN d.wregs : d.wregs[i] \in NonStackGpr64
ImmOperand(d) == "imm" \in { d.ops[i] : i \in DOMAIN d.ops }

StackTouched(d) ==
    \/ d.sr \/ d.sw
    \/ \E r \in {"RSP", "RBP"} :
          \/ r \in { d.rregs[i] : i \in DOMAIN d.rregs }
          \/ r \in { d.wregs[i] : i \in DOMAIN d.wregs }

Reads8(d) == \E i \in DOMAIN d.mem : d.mem[i].read /\ d.mem[i].size = 8
Writes8(d) == \E i \in DOMAIN d.mem : d.mem[i].written /\ d.mem[i].size = 8

RegRegShape(d) ==
    /\ d.mem = <<>> /\ ReadsGpr64(d) /\ WritesGpr64(d)
    /\ ~ImmOperand(d) /\ ~StackTouched(d)

LoadCombine(d) == Reads8(d) /\ WritesGpr64(d) /\ ~Writes8(d)
StoreCombine(d) == Writes8(d) /\ ReadsGpr64(d)

\* The bucket the classification rules give a descriptor: none for an
\* untracked opcode, an immediate or stack traffic; else register-register
\* for that shape; else register-memory for a load-combine or a
\* store-combine; else none.
BucketOf(d) ==
    IF ~ScalarOpcode(d.opc) \/ ImmOperand(d) \/ StackTouched(d) THEN NoCall
    ELSE IF RegRegShape(d) THEN FamilyOf(d.opc) \o "_rr"
    ELSE IF LoadCombine(d) \/ StoreCombine(d) THEN FamilyOf(d.opc) \o "_rm"
    ELSE NoCall

\* ------------------------------------------------------------------ state
VARIABLES
    prog,            \* the name of the target program (input)
    knobAddr, knobStart, knobStop,      \* command line (input)
    phase,           \* "main" | "run" | "done"
    g_mode, g_start_addr, g_start_marker, g_stop_marker,
    pc,              \* per thread: position in its life
    stack,           \* per thread: routines entered and not yet left
    tls,             \* per thread: PIN_GetThreadData(tlsKey, tid), 0 for null
    heap,            \* the ThreadState objects allocated, by address
    g_all,           \* registry
    g_lock,          \* 0 when free, else the owner value tid + 1
    total,           \* Fini's local total
    report,          \* the four numbers printed, <<>> before Fini
    ex,              \* history: classified executions thread by thread
    ci,              \* history: counted increments thread by thread
    ev,              \* history: the last region call run for each thread
    kregs,           \* per thread: the values of its mask registers
    desc,            \* the descriptor handed to the instrumentation callbacks
    inserted         \* the analysis call each tool inserted for desc

vars ==
    <<prog, knobAddr, knobStart, knobStop, phase, g_mode, g_start_addr,
      g_start_marker, g_stop_marker, pc, stack, tls, heap, g_all, g_lock,
      total, report, ex, ci, ev, kregs, desc, inserted>>

\* The classifier's input and output.
cvars == <<desc, inserted>>

config == <<g_mode, g_start_addr, g_start_marker, g_stop_marker>>
inputs == <<prog, knobAddr, knobStart, knobStop>>

\* The target program of the run.
Program == ProgramNamed(prog)

Tids == 0..(Program.threads - 1)

\* Cnts{}: every counter 0.
ZeroCnts == [b \in Buckets |-> 0]

\* A ThreadState born with the region open.
NewThreadState_Active == [cnts |-> ZeroCnts, active |-> TRUE, freed |-> 0]

\* A fresh ThreadState; freed counts its deletions.
NewThreadState == [cnts |-> ZeroCnts, active |-> FALSE, freed |-> 0]

\* No instruction is being instrumented.
Nop == MkIns(0, "", FALSE, "NOP", <<>>, <<>>, <<>>, <<>>, FALSE, FALSE)

\* The callbacks have not run for desc.
NotInstrumented == [done |-> FALSE, arith |-> NoCall, root |-> NoRootCall]

\* Static initialisation of the globals.
Globals ==
    /\ g_mode = "WHOLE"
    /\ g_start_addr = 0
    /\ g_start_marker = ""
    /\ g_stop_marker = ""
    /\ pc = [t \in Tids |-> "none"]
    /\ stack = [t \in Tids |-> <<>>]
    /\ tls = [t \in Tids |-> 0]
    /\ heap = <<>>
    /\ g_all = <<>>
    /\ g_lock = 0
    /\ total = ZeroCnts
    /\ report = <<>>
    /\ ex = [t \in Tids |-> ZeroCnts]
    /\ ci = [t \in Tids |-> ZeroCnts]
    /\ ev = [t \in Tids |-> NoCall]
    /\ kregs = [t \in Tids |-> [k \in KRegs |-> 0]]

\* A run of a target program under the tool, before main runs.
Init ==
    /\ \E sc \in Scenarios :
          /\ prog = sc[1]
          /\ knobAddr = sc[2].addr
          /\ knobStart = sc[2].start
          /\ knobStop = sc[2].stop
    /\ phase = "main"
    /\ Globals
    /\ desc = Nop
    /\ inserted = NotInstrumented

\* ------------------------------------------------------------------- main
\* The derivation with the prefixes looked for anywhere in the name.
DeriveStop_AnyPosition(start) ==
    IF Find(start, "start_") # -1
        THEN "stop_" \o Substr(start, Find(start, "start_") + 6)
    ELSE IF Find(start, "begin_") # -1
        THEN "end_" \o Substr(start, Find(start, "begin_") + 6)
    ELSE "stop_profiling"

\* The stop marker main derives when -stop is empty.
DeriveStop(start) ==
    IF Find(start, "start_") = 0 THEN "stop_" \o Substr(start, 6)
    ELSE IF Find(start, "begin_") = 0 THEN "end_" \o Substr(start, 6)
    ELSE "stop_profiling"

\* main: mode selection from the knobs, then PIN_StartProgram, which starts
\* the program's first thread.
Main ==
    /\ phase = "main"
    /\ IF knobStart # ""
         THEN /\ g_mode' = "MARKER"
              /\ g_start_marker' = knobStart
              /\ g_stop_marker' = IF knobStop = "" THEN DeriveStop(knobStart)
                                                   ELSE knobStop
              /\ g_start_addr' = g_start_addr
         ELSE IF knobAddr # "0x0" /\ knobAddr # "0"
         THEN /\ g_mode' = "ADDRESS"
              /\ g_start_addr' = StrToULL(knobAddr)
              /\ UNCHANGED <<g_start_marker, g_stop_marker>>
         ELSE /\ g_mode' = "WHOLE"
              /\ UNCHANGED <<g_start_addr, g_start_marker, g_stop_marker>>
    /\ phase' = "run"
    /\ pc' = [pc EXCEPT ![0] = "start"]
    /\ UNCHANGED <<cvars, kregs,
                   inputs, stack, tls, heap, g_all, g_lock, total, report,
                   ex, ci, ev>>
\* -------------------------------------------------------- instrumentation
\* InstrumentMarkerRtn with the two insertion points exchanged: the start
\* call before the routine's first instruction, the stop call before its
\* RETs.
InstrumentMarkerRtn_PointsSwapped(ins) ==
    IF g_mode # "MARKER" THEN <<>>
    ELSE (IF ins.rtn = g_start_marker /\ ins.head
             THEN <<"StartRegion">> ELSE <<>>)
         \o (IF ins.rtn = g_stop_marker /\ INS_IsRet(ins)
             THEN <<"StopRegion">> ELSE <<>>)

\* InstrumentMarkerRtn, seen from one instruction of the routine: the call
\* inserted at IPOINT_AFTER of the start routine runs before each of its
\* RETs, the call inserted at IPOINT_BEFORE of the stop routine before its
\* first instruction.
InstrumentMarkerRtn(ins) ==
    IF g_mode # "MARKER" THEN <<>>
    ELSE (IF ins.rtn = g_start_marker /\ INS_IsRet(ins)
             THEN <<"StartRegion">> ELSE <<>>)
         \o (IF ins.rtn = g_stop_marker /\ ins.head
             THEN <<"StopRegion">> ELSE <<>>)

\* InstrumentAddressRegion: the calls it inserts before ins, in order.
InstrumentAddressRegion(ins) ==
    IF g_mode # "ADDRESS" THEN <<>>
    ELSE (IF ins.addr = g_start_addr THEN <<"StartRegion">> ELSE <<>>)
         \o (IF INS_IsRet(ins) THEN <<"StopRegion">> ELSE <<>>)

\* The calls with the counter stub ahead of the region calls.
Calls_ArithFirst(ins) ==
    (IF InstrumentArith(ins) = NoCall THEN <<>>
     ELSE <<InstrumentArith(ins)>>)
        \o InstrumentMarkerRtn(ins)
        \o InstrumentAddressRegion(ins)

\* The analysis calls that run before each execution of ins, in the order
\* main registers the instrumentation functions.
Calls(ins) ==
    InstrumentMarkerRtn(ins)
        \o InstrumentAddressRegion(ins)
        \o (IF InstrumentArith(ins) = NoCall THEN <<>>
            ELSE <<InstrumentArith(ins)>>)

\* ------------------------------------------------------ analysis routines
\* Each takes the heap and the executing thread's block St(tid) and gives
\* the heap after the call.
\* Counting without the whole-program bypass.
Counting_FlagOnly(h, st) == h[st].active

Counting(h, st) == g_mode = "WHOLE" \/ h[st].active

\* StartRegion that opens the region of every thread.
StartRegion_Everyone(h, st) ==
    [a \in DOMAIN h |-> [h[a] EXCEPT !.active = TRUE]]

\* StartRegion that flips the flag whatever it was.
StartRegion_Toggles(h, st) == [h EXCEPT ![st].active = ~@]

StartRegion(h, st) == [h EXCEPT ![st].active = TRUE]

\* StopRegion that keeps the region open.
StopRegion_Keeps(h, st) == h

\* StopRegion that flips the flag whatever it was.
StopRegion_Toggles(h, st) == [h EXCEPT ![st].active = ~@]

StopRegion(h, st) ==
    IF h[st].active THEN [h EXCEPT ![st].active = FALSE] ELSE h

\* A counter stub that does not ask Counting.
Counter_Ungated(h, st, name) == [h EXCEPT ![st].cnts[name] = @ + 1]

\* DEF_COUNTER(name)
Counter(h, st, name) ==
    IF Counting(h, st) THEN [h EXCEPT ![st].cnts[name] = @ + 1] ELSE h

AnalysisCall(h, st, call) ==
    CASE call = "StartRegion" -> StartRegion(h, st)
      [] call = "StopRegion"  -> StopRegion(h, st)
      [] OTHER                -> Counter(h, st, call)

RECURSIVE RunCalls(_, _, _)
\* The heap after the calls of one instruction, run in order.
RunCalls(h, st, calls) ==
    IF calls = <<>> THEN h
    ELSE RunCalls(AnalysisCall(h, st, Head(calls)), st, Tail(calls))

\* The sum of the 18 counters of one Cnts.
CntSum(c) ==
    c.add_rr + c.sub_rr + c.adc_rr + c.sbb_rr + c.mul_rr + c.mulx_rr
      + c.adcx_rr + c.adox_rr + c.div_rr
      + c.add_rm + c.sub_rm + c.adc_rm + c.sbb_rm + c.mul_rm + c.mulx_rm
      + c.adcx_rm + c.adox_rm + c.div_rm

RECURSIVE Executions(_, _)
\* The classified executions of threads 0 .. n-1.
Executions(e, n) ==
    IF n = 0 THEN 0 ELSE Executions(e, n - 1) + CntSum(e[n - 1])

RECURSIVE LastRegionCall(_, _)
\* The last StartRegion or StopRegion among calls, prev when there is none.
LastRegionCall(calls, prev) ==
    IF calls = <<>> THEN prev
    ELSE LastRegionCall(Tail(calls),
                        IF Head(calls) \in {"StartRegion", "StopRegion"}
                           THEN Head(calls) ELSE prev)

\* Thread t executes static instruction ins: its analysis calls run on the
\* thread's own block.  ex records the execution when the classification
\* rules give ins a bucket, ci what the calls added, ev the last region
\* call that ran.  (The program ends within Program.len classified
\* executions.)
Execute(t, ins) ==
    /\ heap' = RunCalls(heap, tls[t], Calls(ins))
    /\ ex' = IF BucketOf(ins) = NoCall THEN ex
             ELSE [ex EXCEPT ![t][BucketOf(ins)] = @ + 1]
    /\ Executions(ex', Program.threads) <= Program.len
    /\ ci' = [ci EXCEPT ![t] =
                [b \in Buckets |->
                    @[b] + heap'[tls[t]].cnts[b] - heap[tls[t]].cnts[b]]]
    /\ ev' = [ev EXCEPT ![t] = LastRegionCall(Calls(ins), @)]

\* --------------------------------------------------------- thread life
\* A running thread creates another thread of the program.
Spawn(t, u) ==
    /\ phase = "run" /\ pc[t] = "run" /\ pc[u] = "none"
    /\ pc' = [pc EXCEPT ![u] = "start"]
    /\ UNCHANGED <<cvars, kregs,
                   inputs, phase, config, stack, tls, heap, g_all, g_lock,
                   total, report, ex, ci, ev>>

\* ThreadStart, up to the lock: new ThreadState; PIN_SetThreadData.
ThreadStart_New(t) ==
    /\ pc[t] = "start"
    /\ heap' = Append(heap, NewThreadState)
    /\ tls' = [tls EXCEPT ![t] = Len(heap) + 1]
    /\ pc' = [pc EXCEPT ![t] = "getlock"]
    /\ UNCHANGED <<cvars, kregs,
                   inputs, phase, config, stack, g_all, g_lock, total,
                   report, ex, ci, ev>>

\* PIN_GetLock(&g_lock, tid + 1): waits until the lock is free.
ThreadStart_GetLock(t) ==
    /\ pc[t] = "getlock"
    /\ g_lock = 0
    /\ g_lock' = t + 1
    /\ pc' = [pc EXCEPT ![t] = "push"]
    /\ UNCHANGED <<cvars, kregs,
                   inputs, phase, config, stack, tls, heap, g_all, total,
                   report, ex, ci, ev>>

\* g_all.push_back(st)
ThreadStart_PushBack(t) ==
    /\ pc[t] = "push"
    /\ g_all' = Append(g_all, tls[t])
    /\ pc' = [pc EXCEPT ![t] = "release"]
    /\ UNCHANGED <<cvars, kregs,
                   inputs, phase, config, stack, tls, heap, g_lock, total,
                   report, ex, ci, ev>>

\* ThreadStart that returns without releasing the lock.
ThreadStart_ReleaseLock_Forgets(t) ==
    /\ pc[t] = "release"
    /\ pc' = [pc EXCEPT ![t] = "run"]
    /\ UNCHANGED <<cvars, kregs,
                   inputs, phase, config, stack, tls, heap, g_all,
                   g_lock, total, report, ex, ci, ev>>

\* PIN_ReleaseLock(&g_lock); the thread then runs its function.
ThreadStart_ReleaseLock(t) ==
    /\ pc[t] = "release"
    /\ g_lock' = 0
    /\ pc' = [pc EXCEPT ![t] = "run"]
    /\ UNCHANGED <<cvars, kregs,
                   inputs, phase, config, stack, tls, heap, g_all, total,
                   report, ex, ci, ev>>

\* The routine thread t is executing.
Cur(t) == IF stack[t] = <<>> THEN Program.base ELSE stack[t][Len(stack[t])]

\* Thread t calls the routine whose first instruction is ins, and executes
\* that instruction.
Call(t, ins) ==
    /\ pc[t] = "run" /\ ins \in Program.ins /\ ins.head
    /\ Len(stack[t]) < Program.depth
    /\ stack' = [stack EXCEPT ![t] = Append(@, ins.rtn)]
    /\ Execute(t, ins)
    /\ UNCHANGED <<cvars, kregs,
                   inputs, phase, config, pc, tls, g_all, g_lock, total,
                   report>>

\* Thread t executes an instruction inside its current routine.
Step(t, ins) ==
    /\ pc[t] = "run" /\ ins \in Program.ins
    /\ ins.rtn = Cur(t) /\ ~ins.head /\ ~INS_IsRet(ins)
    /\ Execute(t, ins)
    /\ UNCHANGED <<cvars, kregs,
                   inputs, phase, config, pc, stack, tls, g_all, g_lock,
                   total, report>>

\* Thread t executes a RET of its current routine and is back in the caller.
Return(t, ins) ==
    /\ pc[t] = "run" /\ ins \in Program.ins
    /\ stack[t] # <<>> /\ ins.rtn = Cur(t) /\ INS_IsRet(ins)
    /\ stack' = [stack EXCEPT ![t] = SubSeq(@, 1, Len(@) - 1)]
    /\ Execute(t, ins)
    /\ UNCHANGED <<cvars, kregs,
                   inputs, phase, config, pc, tls, g_all, g_lock, total,
                   report>>

\* Thread t ends.
ThreadExit(t) ==
    /\ pc[t] = "run"
    /\ pc' = [pc EXCEPT ![t] = "done"]
    /\ stack' = [stack EXCEPT ![t] = <<>>]
    /\ UNCHANGED <<cvars, kregs,
                   inputs, phase, config, tls, heap, g_all, g_lock, total,
                   report, ex, ci, ev>>

\* ------------------------------------------------------------------ Fini
RECURSIVE Accumulate_SkipsFirst(_, _, _)
\* The loop of Fini started at the second entry of the registry.
Accumulate_SkipsFirst(h, reg, n) ==
    IF n <= 1 THEN ZeroCnts
    ELSE LET acc == Accumulate_SkipsFirst(h, reg, n - 1)
         IN  [b \in Buckets |-> acc[b] + h[reg[n]].cnts[b]]

RECURSIVE Accumulate(_, _, _)
\* The loop of Fini over the first n entries of the registry: ACC(f) for
\* every field f.
Accumulate(h, reg, n) ==
    IF n = 0 THEN ZeroCnts
    ELSE LET acc == Accumulate(h, reg, n - 1)
         IN  [b \in Buckets |-> acc[b] + h[reg[n]].cnts[b]]

RECURSIVE DeleteAll_SkipsLast(_, _, _)
\* The deletions of Fini without the one of the last entry.
DeleteAll_SkipsLast(h, reg, n) ==
    IF n <= 1 THEN h
    ELSE LET d == DeleteAll_SkipsLast(h, reg, n - 1)
         IN  [d EXCEPT ![reg[n - 1]].freed = @ + 1]

RECURSIVE DeleteAll(_, _, _)
\* The heap after `delete st` for the first n entries of the registry.
DeleteAll(h, reg, n) ==
    IF n = 0 THEN h
    ELSE LET d == DeleteAll(h, reg, n - 1)
         IN  [d EXCEPT ![reg[n]].freed = @ + 1]

\* The ADD line without the ADOX loads.
ADD_NoAdoxRm(tot) ==
    tot.add_rr + tot.add_rm + tot.adc_rr + tot.adc_rm
      + tot.adcx_rr + tot.adcx_rm + tot.adox_rr

ADD(tot) ==
    tot.add_rr + tot.add_rm + tot.adc_rr + tot.adc_rm
      + tot.adcx_rr + tot.adcx_rm + tot.adox_rr + tot.adox_rm

SUB(tot) == tot.sub_rr + tot.sub_rm + tot.sbb_rr + tot.sbb_rm

MUL(tot) == tot.mul_rr + tot.mul_rm + tot.mulx_rr + tot.mulx_rm

DIV(tot) == tot.div_rr + tot.div_rm

\* Fini runs when the program ends, after its threads have stopped.
Fini ==
    /\ phase = "run"
    /\ pc[0] = "done" /\ \A t \in Tids : pc[t] \in {"none", "done"}
    /\ total' = Accumulate(heap, g_all, Len(g_all))
    /\ heap' = DeleteAll(heap, g_all, Len(g_all))
    /\ report' = <<ADD(total'), SUB(total'), MUL(total'), DIV(total')>>
    /\ phase' = "done"
    /\ UNCHANGED <<cvars, kregs,
                   inputs, config, pc, stack, tls, g_all, g_lock, ex, ci, ev>>

\* ------------------------------------------------------------ specification
Next ==
    \/ Main
    \/ \E t \in Tids, u \in Tids : Spawn(t, u)
    \/ \E t \in Tids : ThreadStart_New(t)
    \/ \E t \in Tids : ThreadStart_GetLock(t)
    \/ \E t \in Tids : ThreadStart_PushBack(t)
    \/ \E t \in Tids : ThreadStart_ReleaseLock(t)
    \/ \E t \in Tids, ins \in Program.ins : Call(t, ins)
    \/ \E t \in Tids, ins \in Program.ins : Step(t, ins)
    \/ \E t \in Tids, ins \in Program.ins : Return(t, ins)
    \/ \E t \in Tids : ThreadExit(t)
    \/ Fini

Spec == Init /\ [][Next]_vars

\* A thread inside ThreadStart's critical section keeps running: the
\* section is straight-line code that waits for nothing.
CriticalSection(t) ==
    t \in Tids /\ (ThreadStart_PushBack(t) \/ ThreadStart_ReleaseLock(t))

FairSpec == Spec /\ \A t \in 0..(NThreads - 1) : WF_vars(CriticalSection(t))

\* ------------------------------------------------ instrumentation alone
\* Pin hands one instruction descriptor to the instrumentation callbacks.
ClassifyInit ==
    /\ desc \in Descriptors
    /\ inserted = NotInstrumented
    /\ prog = "empty"
    /\ knobAddr = DefaultKnobs.addr
    /\ knobStart = DefaultKnobs.start
    /\ knobStop = DefaultKnobs.stop
    /\ phase = "instrument"
    /\ Globals

\* The callbacks run for desc: InstrumentArith of the region tool and
\* Instruction of the packed-aware tool.
Instrument ==
    /\ phase = "instrument" /\ ~inserted.done
    /\ inserted' = [done |-> TRUE, arith |-> InstrumentArith(desc),
                    root |-> Instruction(desc)]
    /\ UNCHANGED <<desc, kregs, inputs, phase, config, pc, stack, tls, heap,
                   g_all, g_lock, total, report, ex, ci, ev>>

ClassifyNext == Instrument

ClassifySpec == ClassifyInit /\ [][ClassifyNext]_vars

\* ------------------------------- a run under the packed-aware tool
\* The packed program under the tool, before main runs.
RootInit ==
    /\ prog = "packed"
    /\ knobAddr = DefaultKnobs.addr
    /\ knobStart = DefaultKnobs.start
    /\ knobStop = DefaultKnobs.stop
    /\ phase = "main"
    /\ Globals
    /\ desc = Nop
    /\ inserted = NotInstrumented

\* main: PIN_StartProgram starts the program's first thread.
Root_Main ==
    /\ phase = "main"
    /\ phase' = "run"
    /\ pc' = [pc EXCEPT ![0] = "start"]
    /\ UNCHANGED <<cvars, kregs, inputs, config, stack, tls, heap, g_all,
                   g_lock, total, report, ex, ci, ev>>

\* ThreadStart, up to the lock: new Cnts(); PIN_SetThreadData.  (freed
\* counts the deletions of the block.)
Root_ThreadStart_New(t) ==
    /\ pc[t] = "start"
    /\ heap' = Append(heap, [cnts |-> Root_ZeroCnts, freed |-> 0])
    /\ tls' = [tls EXCEPT ![t] = Len(heap) + 1]
    /\ pc' = [pc EXCEPT ![t] = "getlock"]
    /\ UNCHANGED <<cvars, kregs, inputs, phase, config, stack, g_all, g_lock,
                   total, report, ex, ci, ev>>

\* ThreadStart, the critical section: the lock is taken when it is free,
\* the block appended and the lock released; the thread then runs its
\* function.
Root_ThreadStart_Append(t) ==
    /\ pc[t] = "getlock"
    /\ g_lock = 0
    /\ g_all' = Append(g_all, tls[t])
    /\ pc' = [pc EXCEPT ![t] = "run"]
    /\ UNCHANGED <<cvars, kregs, inputs, phase, config, stack, tls, heap,
                   g_lock, total, report, ex, ci, ev>>

\* Thread t executes the load of a mask register; no analysis call runs
\* before it.
Root_SetMask(t, ins, v) ==
    /\ pc[t] = "run" /\ ins \in Program.ins /\ ins.opc = "KMOVQ"
    /\ Instruction(ins) = NoRootCall
    /\ kregs' = [kregs EXCEPT ![t][ins.wregs[1]] = v]
    /\ UNCHANGED <<cvars, inputs, phase, config, pc, stack, tls, heap, g_all,
                   g_lock, total, report, ex, ci, ev>>

RECURSIVE Root_Executed(_, _)
\* The instructions counted in the first n blocks: the sum of their
\* per-instruction counters.
Root_Executed(h, n) ==
    IF n = 0 THEN 0
    ELSE LET c == h[n].cnts
         IN  Root_Executed(h, n - 1)
               + c.add_rr + c.sub_rr + c.mul_rr + c.div_rr
               + c.add_rm + c.sub_rm + c.mul_rm + c.div_rm
               + c.simd_addq_insn + c.simd_subq_insn

\* Thread t executes static instruction ins: the analysis call inserted
\* before it runs on the thread's own block, with the values the thread's
\* mask registers have.  (The program ends within Program.len counted
\* instructions.)
Root_Execute(t, ins) ==
    /\ pc[t] = "run" /\ ins \in Program.ins /\ ins.opc # "KMOVQ"
    /\ heap' = [heap EXCEPT ![tls[t]].cnts =
                    Root_AnalysisCall(@, Instruction(ins), kregs[t])]
    /\ Root_Executed(heap', Len(heap')) <= Program.len
    /\ UNCHANGED <<cvars, kregs, inputs, phase, config, pc, stack, tls, g_all,
                   g_lock, total, report, ex, ci, ev>>

RECURSIVE Root_Accumulate(_, _, _)
\* The loop of Fini over the first n entries of the registry.
Root_Accumulate(h, reg, n) ==
    IF n = 0 THEN Root_ZeroCnts
    ELSE LET acc == Root_Accumulate(h, reg, n - 1)
         IN  [f \in RootFields |-> acc[f] + h[reg[n]].cnts[f]]

RECURSIVE Root_DeleteAll(_, _, _)
\* The heap after `delete c` for the first n entries of the registry.
Root_DeleteAll(h, reg, n) ==
    IF n = 0 THEN h
    ELSE LET d == Root_DeleteAll(h, reg, n - 1)
         IN  [d EXCEPT ![reg[n]].freed = @ + 1]

\* Fini: the sums, and the twelve numbers in the order they are printed.
Root_Fini ==
    /\ phase = "run"
    /\ pc[0] = "done" /\ \A t \in Tids : pc[t] \in {"none", "done"}
    /\ total' = Root_Accumulate(heap, g_all, Len(g_all))
    /\ heap' = Root_DeleteAll(heap, g_all, Len(g_all))
    /\ report' = <<total'.add_rr, total'.add_rm, total'.sub_rr, total'.sub_rm,
                   total'.mul_rr, total'.mul_rm, total'.div_rr, total'.div_rm,
                   total'.simd_addq_insn, total'.simd_addq_ops,
                   total'.simd_subq_insn, total'.simd_subq_ops>>
    /\ phase' = "done"
    /\ UNCHANGED <<cvars, kregs, inputs, config, pc, stack, tls, g_all, g_lock,
                   ex, ci, ev>>

RootNext ==
    \/ Root_Main
    \/ \E t \in Tids, u \in Tids : Spawn(t, u)
    \/ \E t \in Tids : Root_ThreadStart_New(t)
    \/ \E t \in Tids : Root_ThreadStart_Append(t)
    \/ \E t \in Tids, ins \in Program.ins, v \in MaskValues :
          Root_SetMask(t, ins, v)
    \/ \E t \in Tids, ins \in Program.ins : Root_Execute(t, ins)
    \/ \E t \in Tids : ThreadExit(t)
    \/ Root_Fini

RootSpec == RootInit /\ [][RootNext]_vars

\* ================================================================ claims
\* The flag of thread t's block; a thread without a block is not active.
Active(t) == tls[t] # 0 /\ heap[tls[t]].active

\* The routines of the target binary.
Routines == { ins.rtn : ins \in Program.ins }

\* Whether routine r is the one that starts at the configured address.
IsTarget(r) ==
    \E ins \in Program.ins : ins.head /\ ins.rtn = r /\ ins.addr = g_start_addr

\* The frames of the target routine on a call stack: entries into the
\* target minus matching exits.
TargetDepth(s) == Cardinality({ i \in 1..Len(s) : IsTarget(s[i]) })

\* Thread t took a step that executed a RET / that entered routine r.
DidReturn(t) ==
    pc'[t] = "run" /\ Len(stack'[t]) = Len(stack[t]) - 1

DidEnter(t, r) == stack'[t] = Append(stack[t], r)

\* C1: in WholeProgram mode every execution of a classified instruction is
\* counted: each thread's counters equal its classified executions, bucket
\* by bucket, whatever calls and returns the thread made.
C1_WholeProgramCountsAll ==
    (phase # "main" /\ g_mode = "WHOLE") =>
        \A t \in Tids : tls[t] # 0 => heap[tls[t]].cnts = ex[t]

\* Whole-program run in which a thread has entered and left start_roi,
\* entered stop_roi, and had both its ADD and its SUB counted.
C1_Witness ==
    /\ g_mode = "WHOLE" /\ phase = "run"
    /\ \E t \in Tids :
          /\ stack[t] = <<"stop_roi">>
          /\ ex[t].add_rr = 1 /\ ex[t].sub_rm = 1
          /\ heap[tls[t]].cnts.add_rr = 1 /\ heap[tls[t]].cnts.sub_rm = 1

\* C2: after Fini the total of every bucket is the sum, over all threads,
\* of the increments the threads made to it.
C2_TotalIsSumOverThreads ==
    phase = "done" =>
        \A b \in Buckets :
            total[b] = Executions([t \in Tids |->
                                     [c \in Buckets |->
                                         IF c = b THEN ci[t][c] ELSE 0]],
                                  Program.threads)

\* Fini has run after two threads each incremented the same bucket.
C2_Witness ==
    /\ phase = "done"
    /\ \E t \in Tids, u \in Tids, b \in Buckets :
          t # u /\ ci[t][b] >= 1 /\ ci[u][b] >= 1 /\ total[b] = 2

\* C3 as claimed: at the first exit of a re-entrant pair of entries into
\* the target the thread stays Active.
C3_ActiveUntilLastExit ==
    [][\A t \in Tids :
          (/\ g_mode = "ADDRESS" /\ DidReturn(t)
           /\ TargetDepth(stack[t]) = 2 /\ TargetDepth(stack'[t]) = 1)
          => Active(t)']_vars

\* C3 as the code has it: every entry into the target leaves the thread
\* Active and the first exit of a re-entrant pair already leaves it
\* Inactive, with one entry still unmatched.
C3_ActiveUntilFirstExit ==
    [][\A t \in Tids :
          g_mode = "ADDRESS" =>
            /\ (\A r \in Routines :
                   DidEnter(t, r) /\ IsTarget(r) => Active(t)')
            /\ (DidReturn(t) /\ TargetDepth(stack[t]) = 2
                   /\ TargetDepth(stack'[t]) = 1) => ~Active(t)'
    ]_vars

\* Address mode: a thread inside the outer of two nested activations of
\* the target, after the inner one returned, and Inactive.
C3_Witness ==
    /\ g_mode = "ADDRESS"
    /\ \E t \in Tids :
          /\ pc[t] = "run" /\ stack[t] = <<"start_roi">>
          /\ ex[t].add_rr = 2 /\ ~Active(t)

\* Thread t took a step that executed static instruction ins.
Executes(t, ins) == Call(t, ins) \/ Step(t, ins) \/ Return(t, ins)

\* C4: address mode, flag form: executing the instruction at the target
\* address sets the flag, executing a RET clears it (and leaves a clear
\* flag clear; a RET that is itself at the target address runs the start
\* call and then the stop call), and the flag of a thread changes in no
\* other step.
C4_FlagForm ==
    [][g_mode = "ADDRESS" =>
         \A t \in Tids : tls[t] # 0 =>
           /\ \A ins \in Program.ins :
                 Executes(t, ins) =>
                   Active(t)' = (IF INS_IsRet(ins) THEN FALSE
                                 ELSE IF ins.addr = g_start_addr THEN TRUE
                                 ELSE Active(t))
           /\ (Active(t)' # Active(t)) =>
                 (\E ins \in Program.ins :
                   /\ Executes(t, ins)
                   /\ INS_IsRet(ins) \/ ins.addr = g_start_addr)
    ]_vars

\* Address mode: a thread whose region was opened at the target and closed
\* by the RET of stop_roi, called from inside the target routine.
C4_Witness ==
    /\ g_mode = "ADDRESS"
    /\ \E t \in Tids :
          /\ stack[t] = <<"start_roi">> /\ ~Active(t)
          /\ ex[t].sub_rm = 1 /\ ci[t].sub_rm = 1

\* Whether some routine of the target binary has this name.
Resolved(name) == \E ins \in Program.ins : ins.head /\ ins.rtn = name

\* C5 as claimed: entering the start routine leaves the thread Active.
C5_ActiveOnEnteringStart ==
    [][g_mode = "MARKER" =>
         \A t \in Tids :
            DidEnter(t, g_start_marker) /\ Resolved(g_start_marker)
                => Active(t)']_vars

\* C5 as the code has it: the thread is Active once the start routine
\* returns and Inactive once the stop routine is entered, and a
\* classified execution is counted exactly when the thread is Active.
C5_ActiveOnLeavingStart ==
    [][g_mode = "MARKER" =>
         \A t \in Tids : tls[t] # 0 =>
           /\ (DidReturn(t) /\ Cur(t) = g_start_marker) => Active(t)'
           /\ (DidEnter(t, g_stop_marker) /\ Resolved(g_stop_marker))
                 => ~Active(t)'
           /\ (ex'[t] # ex[t]) => (ci'[t] # ci[t] <=> Active(t)')
    ]_vars

\* Marker mode: a thread that executed the ADD inside start_roi uncounted
\* and, after start_roi returned, its IMUL counted.
C5_Witness ==
    /\ g_mode = "MARKER"
    /\ \E t \in Tids :
          /\ Active(t) /\ stack[t] = <<>>
          /\ ex[t].add_rr = 1 /\ ci[t].add_rr = 0
          /\ ex[t].mul_rr = 1 /\ ci[t].mul_rr = 1

\* C6: marker mode with an unresolved start or stop name: no thread is
\* ever Active and the report is all zeros.
C6_UnresolvedNeverActive ==
    (/\ g_mode = "MARKER"
     /\ ~Resolved(g_start_marker) \/ ~Resolved(g_stop_marker))
    => /\ \A t \in Tids : ~Active(t)
       /\ phase = "done" => report = <<0, 0, 0, 0>>

\* C7: in the gated modes a thread's block is born Inactive, only the
\* thread's own execution of an instruction that carries the start call
\* opens it, and nothing is counted for a thread that is not Active.
C7_NewThreadInactive ==
    [][(g_mode \in {"ADDRESS", "MARKER"}) =>
         \A t \in Tids :
           /\ (tls[t] = 0 /\ tls'[t] # 0) => ~Active(t)'
           /\ (~Active(t) /\ Active(t)') =>
                 (\E ins \in Program.ins :
                    /\ Executes(t, ins)
                    /\ \E i \in 1..Len(Calls(ins)) :
                          Calls(ins)[i] = "StartRegion")
           /\ (ci'[t] # ci[t]) => Active(t)'
    ]_vars

\* Gated mode: a thread has just got its block, Inactive, while another
\* thread is running Active.
C7_Witness ==
    /\ g_mode \in {"ADDRESS", "MARKER"}
    /\ \E t \in Tids, u \in Tids :
          /\ Active(t) /\ pc[t] = "run"
          /\ pc[u] = "getlock" /\ tls[u] # 0 /\ ~Active(u)

\* C8: the mode main selects: marker when -start is given, else whole
\* program when -addr parses to 0, else address.
C8_ModeSelection ==
    phase # "main" =>
        g_mode = (IF knobStart # "" THEN "MARKER"
                  ELSE IF StrToULL(knobAddr) = 0 THEN "WHOLE"
                  ELSE "ADDRESS")

HasPrefix(s, p) == Len(s) >= Len(p) /\ SubSeq(s, 1, Len(p)) = p

\* s without its first n characters.
Drop(s, n) == IF Len(s) <= n THEN "" ELSE SubSeq(s, n + 1, Len(s))

\* C9: the stop marker: -stop when given; else start_X gives stop_X, else
\* begin_X gives end_X, else stop_profiling.
C9_StopMarker ==
    (phase # "main" /\ g_mode = "MARKER") =>
        g_stop_marker =
            (IF knobStop # "" THEN knobStop
             ELSE IF HasPrefix(knobStart, "start_")
                THEN "stop_" \o Drop(knobStart, 6)
             ELSE IF HasPrefix(knobStart, "begin_")
                THEN "end_" \o Drop(knobStart, 6)
             ELSE "stop_profiling")

\* main has derived end_roi from begin_roi.
C9_Witness ==
    /\ phase # "main" /\ knobStart = "begin_roi" /\ knobStop = ""
    /\ g_stop_marker = "end_roi"

\* The family a counter is reported under: its name up to the "_",
\* carry variants with ADD, borrow with SUB, MULX with MUL.
Family(b) ==
    LET op == SubSeq(b, 1, Find(b, "_"))
    IN  CASE op \in {"add", "adc", "adcx", "adox"} -> 1
          [] op \in {"sub", "sbb"} -> 2
          [] op \in {"mul", "mulx"} -> 3
          [] op = "div" -> 4

\* The increments all threads made to the buckets of family f.
FamilyCount(f) ==
    Executions([t \in Tids |->
                  [b \in Buckets |-> IF Family(b) = f THEN ci[t][b] ELSE 0]],
               Program.threads)

\* C10: the four numbers reported are the family sums, and together they
\* are all the increments made by all threads.
C10_ReportGrouping ==
    phase = "done" =>
        /\ report = <<FamilyCount(1), FamilyCount(2), FamilyCount(3),
                      FamilyCount(4)>>
        /\ report[1] + report[2] + report[3] + report[4]
             = Executions(ci, Program.threads)

\* Fini has reported an ADOX load of one thread and an SBB of another.
C10_Witness ==
    /\ phase = "done"
    /\ \E t \in Tids, u \in Tids :
          t # u /\ ci[t].adox_rm = 1 /\ ci[u].sbb_rr = 1
    /\ report = <<1, 1, 0, 0>>

\* ------------------------------------------------ claims on classification
\* C11: each tool registers at most one callback for a descriptor; a packed
\* add or subtract gets a packed callback and never a scalar one; a
\* register-register bucket goes to descriptors without memory operands
\* only and a register-memory bucket to descriptors with one only.
C11_ClassificationExclusive ==
    inserted.done =>
        LET a == inserted.arith
            r == inserted.root.f
        IN  /\ a \in Buckets \cup {NoCall}
            /\ r \in RootRegReg \cup RootRegMem \cup SimdCalls \cup {NoCall}
            /\ PackedOpcode(desc.opc) <=> (r \in SimdCalls)
            /\ PackedOpcode(desc.opc) => a = NoCall
            /\ a \in RegRegBuckets => desc.mem = <<>>
            /\ a \in RegMemBuckets => desc.mem # <<>>
            /\ r \in RootRegReg => desc.mem = <<>>
            /\ r \in RootRegMem => desc.mem # <<>>

\* A packed add whose operands look like a scalar register-register add.
C11_Witness ==
    /\ inserted.done /\ desc.opc = "PADDQ" /\ RegRegShape(desc)
    /\ inserted.root.f = "SimdAddQ" /\ inserted.arith = NoCall

\* C12: a descriptor of a scalar opcode the tool tracks, without memory
\* operands, immediates and stack registers, that reads and writes a
\* non-stack 64-bit register, gets the register-register bucket of the
\* opcode's family.
C12_RegReg ==
    (inserted.done /\ RegRegShape(desc)) =>
        /\ ScalarOpcode(desc.opc) =>
              inserted.arith = FamilyOf(desc.opc) \o "_rr"
        /\ RootOpcode(desc.opc) =>
              inserted.root.f = RootFamilyOf(desc.opc) \o "RR"

\* imul with a 32-bit and a 64-bit register read: mul_rr and MulRR.
C12_Witness ==
    /\ inserted.done /\ desc.opc = "IMUL" /\ RegRegShape(desc)
    /\ desc.rregs = <<"EAX", "RBX">>
    /\ inserted.arith = "mul_rr" /\ inserted.root.f = "MulRR"

\* C13: a scalar descriptor with an immediate operand gets no bucket.
C13_ImmediateIsNone ==
    (inserted.done /\ ~PackedOpcode(desc.opc) /\ ImmOperand(desc)) =>
        inserted.arith = NoCall /\ inserted.root = NoRootCall

\* imul rax, rbx, imm: register-register in everything but the immediate in
\* third place.
C13_Witness ==
    /\ inserted.done /\ desc.opc = "IMUL"
    /\ desc.ops = <<"reg", "reg", "imm">>
    /\ desc.mem = <<>> /\ ReadsGpr64(desc) /\ WritesGpr64(desc)
    /\ ~StackTouched(desc)
    /\ inserted.arith = NoCall /\ inserted.root = NoRootCall

\* C14: a whole-program run of the loop around one add rax, rbx reports the
\* number of times the add was executed as ADD, and 0 for SUB, MUL and DIV.
C14_AddLoopReport ==
    (phase = "done" /\ prog = "addloop" /\ g_mode = "WHOLE") =>
        report = <<ex[0].add_rr, 0, 0, 0>>

\* The loop ran twice.
C14_Witness ==
    /\ phase = "done" /\ prog = "addloop" /\ g_mode = "WHOLE"
    /\ ex[0] = [ZeroCnts EXCEPT !.add_rr = 2]
    /\ report = <<2, 0, 0, 0>>

\* Whether a region call runs before ins, ahead of its counter stub.
HasRegionCall(ins) ==
    \/ g_mode = "ADDRESS" /\ ins.addr = g_start_addr
    \/ g_mode = "MARKER" /\ ins.head /\ ins.rtn = g_stop_marker

\* C15: in the gated modes the dispatch of a classified instruction by an
\* Inactive thread changes no counter of any thread; by an Active thread it
\* adds 1 to the instruction's bucket in that thread's block and changes no
\* other counter; the dispatch changes no activation flag.  (Where a region
\* call runs before the stub, the flag the dispatch sees is the one the
\* region call left.)
C15_GatedDispatch ==
    [][(g_mode \in {"ADDRESS", "MARKER"}) =>
         \A t \in Tids, ins \in Program.ins :
            (Executes(t, ins) /\ BucketOf(ins) # NoCall) =>
               /\ \A a \in DOMAIN heap : a # tls[t] => heap'[a] = heap[a]
               /\ heap'[tls[t]].cnts =
                     (IF Active(t)'
                         THEN [heap[tls[t]].cnts EXCEPT ![BucketOf(ins)] = @ + 1]
                         ELSE heap[tls[t]].cnts)
               /\ (~HasRegionCall(ins)) => (Active(t)' = Active(t))
    ]_vars

\* Address mode: a thread whose IMUL was dispatched while it was Inactive,
\* uncounted, and whose ADD at the target was dispatched Active, counted.
C15_Witness ==
    /\ g_mode = "ADDRESS"
    /\ \E t \in Tids :
          /\ ex[t].mul_rr = 1 /\ ci[t].mul_rr = 0
          /\ ex[t].add_rr = 1 /\ ci[t].add_rr = 1
          /\ heap[tls[t]].cnts = [ZeroCnts EXCEPT !.add_rr = 1]

\* C16: an instruction executed by thread t, with its region calls and its
\* dispatch, changes no block but t's own; threads have different blocks;
\* and while the program runs a block changes only in a step in which its
\* own thread executes an instruction.
C16_SingleWriter ==
    [][/\ \A t \in Tids, u \in Tids :
             (t # u /\ tls[t] # 0) => tls[t] # tls[u]
       /\ \A t \in Tids, ins \in Program.ins :
             Executes(t, ins) =>
                \A a \in DOMAIN heap : a # tls[t] => heap'[a] = heap[a]
       /\ \A a \in DOMAIN heap :
             (phase' = "run" /\ heap'[a] # heap[a]) =>
                \E t \in Tids, ins \in Program.ins :
                   tls[t] = a /\ Executes(t, ins)
    ]_vars

\* Gated run of two threads: one opened its region and had its ADD counted,
\* the other executed its IMUL with its block still as it was born.
C16_Witness ==
    /\ g_mode \in {"ADDRESS", "MARKER"}
    /\ \E t \in Tids, u \in Tids :
          /\ t # u /\ tls[t] # 0 /\ tls[u] # 0
          /\ Active(t) /\ heap[tls[t]].cnts.add_rr = 1
          /\ ex[u].mul_rr = 1 /\ heap[tls[u]] = NewThreadState

\* Thread t has appended its block to the registry.
Registered(t) == pc[t] \in {"release", "run", "done"}

\* C17: the registry holds one entry for every thread that has appended,
\* all entries different, each the block the thread's own lookup returns;
\* no block is released before Fini; Fini sums every entry once and
\* releases every entry once.
C17_RegistryLifecycle ==
    /\ Len(g_all) = Cardinality({ t \in Tids : Registered(t) })
    /\ \A i \in DOMAIN g_all, j \in DOMAIN g_all :
          i # j => g_all[i] # g_all[j]
    /\ \A t \in Tids :
          Registered(t) => \E i \in DOMAIN g_all : g_all[i] = tls[t]
    /\ (phase # "done") => \A a \in DOMAIN heap : heap[a].freed = 0
    /\ (phase = "done") =>
          /\ \A i \in DOMAIN g_all : heap[g_all[i]].freed = 1
          /\ \A a \in DOMAIN heap : \E i \in DOMAIN g_all : g_all[i] = a
          /\ \A b \in Buckets :
                total[b] =
                   Executions([t \in Tids |->
                                 [c \in Buckets |->
                                    IF c = b /\ tls[t] # 0
                                       THEN heap[tls[t]].cnts[c] ELSE 0]],
                              Program.threads)

\* Two threads created by the main thread appended in the order opposite
\* to the one in which they allocated their blocks, and Fini has run.
C17_Witness ==
    /\ phase = "done" /\ Len(g_all) = 3
    /\ \E t \in Tids, u \in Tids :
          /\ tls[t] < tls[u]
          /\ \E i \in DOMAIN g_all, j \in DOMAIN g_all :
                g_all[i] = tls[t] /\ g_all[j] = tls[u] /\ j < i
    /\ \A i \in DOMAIN g_all : heap[g_all[i]].freed = 1

\* The lock is held exactly by the thread that is between PIN_GetLock and
\* PIN_ReleaseLock, which appends once: before the append its block is not
\* in the registry, after it its block is the last entry.
LockHeldForAppend ==
    /\ g_lock # 0 => (g_lock - 1) \in Tids
    /\ \A t \in Tids :
          /\ (g_lock = t + 1) <=> (pc[t] \in {"push", "release"})
          /\ (pc[t] = "push") =>
                (\A i \in DOMAIN g_all : g_all[i] # tls[t])
          /\ (pc[t] = "release") =>
                (g_all # <<>> /\ g_all[Len(g_all)] = tls[t])

\* A running thread can execute any instruction of its routine, whoever
\* holds the lock, as long as the program has executions left.
IncrementNeverBlocked ==
    \A t \in Tids, ins \in Program.ins :
        (/\ phase = "run" /\ pc[t] = "run" /\ g_lock # 0
         /\ ins.rtn = Cur(t) /\ ~ins.head /\ ~INS_IsRet(ins)
         /\ Executions(ex, Program.threads) < Program.len)
        => ENABLED Step(t, ins)

\* The lock changes hands only in ThreadStart; executing an instruction
\* neither takes nor needs it.
LockOnlyInThreadStart ==
    /\ (g_lock' # g_lock) =>
          (\E t \in Tids :
              ThreadStart_GetLock(t) \/ ThreadStart_ReleaseLock(t))
    /\ \A t \in Tids, ins \in Program.ins :
          Executes(t, ins) => (g_lock' = g_lock /\ g_lock # t + 1)

\* C18: the lock is taken only by ThreadStart, held across its one append
\* and then released; the analysis routines never take it, no thread holds
\* it while it increments, and a held lock blocks nobody's increment.
C18_LockDiscipline ==
    /\ [](LockHeldForAppend /\ IncrementNeverBlocked)
    /\ [][LockOnlyInThreadStart]_vars
    /\ ((g_lock # 0) ~> (g_lock = 0))

\* One thread holds the lock before its append, another waits for it, and
\* the main thread has had its multiplication counted.
C18_Witness ==
    /\ prog = "spawn"
    /\ \E t \in Tids, u \in Tids :
          /\ pc[u] = "push" /\ g_lock = u + 1
          /\ pc[t] = "getlock"
          /\ pc[0] = "run" /\ heap[tls[0]].cnts.mul_rr = 1

\* The register-memory shape: not register-register, no immediate, no
\* stack traffic, a load-combine or a store-combine.
RegMemShape(d) ==
    /\ ~RegRegShape(d) /\ ~ImmOperand(d) /\ ~StackTouched(d)
    /\ LoadCombine(d) \/ StoreCombine(d)

\* C19: a scalar descriptor of register-register or register-memory shape
\* gets a bucket exactly when its opcode is one of the eleven tracked ones,
\* and then the bucket of the opcode's family (IMUL with MUL, IDIV with
\* DIV) and of its shape; this for the region tool and for the packed-aware
\* tool.
C19_OpcodeSetAndFamily ==
    (/\ inserted.done /\ ~PackedOpcode(desc.opc)
     /\ RegRegShape(desc) \/ RegMemShape(desc))
    => /\ inserted.arith =
             (IF ~ScalarOpcode(desc.opc) THEN NoCall
              ELSE FamilyOf(desc.opc)
                     \o (IF RegRegShape(desc) THEN "_rr" ELSE "_rm"))
       /\ inserted.root.f =
             (IF ~ScalarOpcode(desc.opc) THEN NoCall
              ELSE RootFamilyOf(desc.opc)
                     \o (IF RegRegShape(desc) THEN "RR" ELSE "RM"))

\* C20: a descriptor of an opcode the tool tracks that is not of
\* register-register shape and has no immediate and no stack traffic gets
\* the register-memory bucket exactly when it is a load-combine or a
\* store-combine, else nothing; the two rules never both hold, and with an
\* 8-byte read and an 8-byte write only the store-combine rule can.
C20_RegMem ==
    (/\ inserted.done /\ ~RegRegShape(desc)
     /\ ~ImmOperand(desc) /\ ~StackTouched(desc))
    => /\ ~(LoadCombine(desc) /\ StoreCombine(desc))
       /\ (Reads8(desc) /\ Writes8(desc)) => ~LoadCombine(desc)
       /\ ScalarOpcode(desc.opc) =>
             inserted.arith =
                (IF LoadCombine(desc) \/ StoreCombine(desc)
                    THEN FamilyOf(desc.opc) \o "_rm" ELSE NoCall)
       /\ RootOpcode(desc.opc) =>
             inserted.root.f =
                (IF LoadCombine(desc) \/ StoreCombine(desc)
                    THEN RootFamilyOf(desc.opc) \o "RM" ELSE NoCall)

\* add [mem], rax: one memory operand read and written, counted once, by
\* the store-combine rule.
C20_Witness ==
    /\ inserted.done /\ desc.opc = "ADD"
    /\ desc.mem = <<MemOp(TRUE, TRUE, 8)>>
    /\ StoreCombine(desc) /\ WritesGpr64(desc)
    /\ inserted.arith = "add_rm" /\ inserted.root.f = "AddRM"

\* C21: a scalar descriptor that reads or writes the stack pointer or the
\* frame pointer (an address base is among the registers read), or that
\* has a stack read or a stack write, gets no bucket from either tool,
\* whatever other registers it reads and writes.
C21_StackExclusion ==
    (inserted.done /\ ~PackedOpcode(desc.opc) /\ StackTouched(desc)) =>
        inserted.arith = NoCall /\ inserted.root = NoRootCall

\* add rax, [rsp]: an 8-byte load through the stack pointer into a 64-bit
\* register, a load-combine in everything but the stack.
C21_Witness ==
    /\ inserted.done /\ desc.opc = "ADD" /\ ~ImmOperand(desc)
    /\ desc.rregs = <<"RAX", "RSP">> /\ desc.wregs = <<"RAX", "RFLAGS">>
    /\ desc.mem = <<MemOp(TRUE, FALSE, 8)>> /\ LoadCombine(desc)
    /\ inserted.arith = NoCall /\ inserted.root = NoRootCall

\* --------------------------------------------- claims on packed counting
\* L: the byte size of the widest vector register written, over 8; 2 when
\* no vector register is written.
Lanes(d) ==
    LET vec == MMRegs \cup XMMRegs \cup YMMRegs \cup ZMMRegs
        sizes == { REG_Size(d.wregs[i]) :
                     i \in { j \in DOMAIN d.wregs : d.wregs[j] \in vec } }
    IN  IF sizes = {} THEN 2
        ELSE (CHOOSE b \in sizes : \A c \in sizes : c <= b) \div 8

\* The mask register read (the first, if several), "" when none is.
MaskOf(d) ==
    LET ks == { i \in DOMAIN d.rregs : d.rregs[i] \in KRegs }
    IN  IF ks = {} THEN ""
        ELSE d.rregs[CHOOSE i \in ks : \A j \in ks : i <= j]

\* The active lanes of one execution of a packed descriptor by a thread
\* whose mask registers hold kv: the number of 1 bits among the low L bits
\* of the mask register when one is read, L otherwise.
ActiveLanes(d, kv) ==
    IF MaskOf(d) = "" THEN Lanes(d)
    ELSE Cardinality({ i \in 0..(Lanes(d) - 1) :
                         (kv[MaskOf(d)] \div 2^i) % 2 = 1 })

\* The instruction counter and the lane-op counter of a packed opcode.
PackedFields(opc) ==
    IF opc \in {"PADDQ", "VPADDQ"}
       THEN [insn |-> "simd_addq_insn", ops |-> "simd_addq_ops"]
       ELSE [insn |-> "simd_subq_insn", ops |-> "simd_subq_ops"]

\* C22: an execution of a packed add or subtract adds to the lane-op
\* counter the number of 1 bits among the low L bits of the mask register
\* when a mask register is read, and L otherwise: 3 for L = 4 and mask bits
\* 0b1011, 4 for L = 4 without a mask, the same whatever the mask bits at
\* positions L and above, and never more than L.
C22_ActiveLanes ==
    [][\A t \in Tids, ins \in Program.ins :
          (Root_Execute(t, ins) /\ PackedOpcode(ins.opc)) =>
             LET L == Lanes(ins)
                 masked == MaskOf(ins) # ""
                 k == kregs[t][MaskOf(ins)]
                 f == PackedFields(ins.opc).ops
                 active == heap'[tls[t]].cnts[f] - heap[tls[t]].cnts[f]
             IN  /\ active = ActiveLanes(ins, kregs[t])
                 /\ active <= L
                 /\ ~masked => active = L
                 /\ (L = 4 /\ ~masked) => active = 4
                 /\ (L = 4 /\ masked /\ k % 16 = 11) => active = 3
                 /\ masked =>
                       \A m \in MaskValues :
                          (m % 2^L = k % 2^L) =>
                             active = ActiveLanes(ins, [kb \in KRegs |-> m])
    ]_vars

\* One thread executed the four-lane add under mask 0b11011, which added
\* 3; the other the four-lane add without a mask, which added 4.
C22_Witness ==
    /\ prog = "packed"
    /\ \E t \in Tids, u \in Tids :
          /\ t # u /\ tls[t] # 0 /\ tls[u] # 0
          /\ kregs[t]["K1"] = 27
          /\ heap[tls[t]].cnts =
                [Root_ZeroCnts EXCEPT !.simd_addq_insn = 1,
                                      !.simd_addq_ops = 3]
          /\ kregs[u]["K1"] = 0
          /\ heap[tls[u]].cnts =
                [Root_ZeroCnts EXCEPT !.simd_addq_insn = 1,
                                      !.simd_addq_ops = 4]

\* C23: an execution of a packed add (subtract) changes the block of the
\* executing thread only, and there two fields together: the instruction
\* counter of its family by 1 and the lane-op counter of its family by the
\* active lanes; every scalar counter and the counters of the other packed
\* family stay as they are.  So lane-ops never exceed 8 times the
\* instructions, in any block and in the sums of Fini.
C23_PackedCounters ==
    /\ [][\A t \in Tids, ins \in Program.ins :
            (Root_Execute(t, ins) /\ PackedOpcode(ins.opc)) =>
               /\ \A a \in DOMAIN heap : a # tls[t] => heap'[a] = heap[a]
               /\ heap'[tls[t]].cnts =
                     [heap[tls[t]].cnts EXCEPT
                        ![PackedFields(ins.opc).insn] = @ + 1,
                        ![PackedFields(ins.opc).ops] =
                            @ + ActiveLanes(ins, kregs[t])]
         ]_vars
    /\ [](/\ \A a \in DOMAIN heap :
               /\ heap[a].cnts.simd_addq_ops <= 8 * heap[a].cnts.simd_addq_insn
               /\ heap[a].cnts.simd_subq_ops <= 8 * heap[a].cnts.simd_subq_insn
           /\ phase = "done" =>
               /\ total.simd_addq_ops <= 8 * total.simd_addq_insn
               /\ total.simd_subq_ops <= 8 * total.simd_subq_insn)

\* Fini has run after one thread executed the eight-lane subtract twice,
\* plain and under mask 0b100000001, next to a thread that counted nothing.
C23_Witness ==
    /\ prog = "packed" /\ phase = "done"
    /\ \E t \in Tids, u \in Tids :
          /\ t # u /\ tls[t] # 0 /\ tls[u] # 0
          /\ kregs[t]["K1"] = 257
          /\ heap[tls[t]].cnts =
                [Root_ZeroCnts EXCEPT !.simd_subq_insn = 2,
                                      !.simd_subq_ops = 9]
          /\ heap[tls[u]].cnts = Root_ZeroCnts
    /\ total = [Root_ZeroCnts EXCEPT !.simd_subq_insn = 2,
                                     !.simd_subq_ops = 9]

\* ------------------------------------------------- claims on the region flag
\* C24: a thread is Active exactly when the last region call run for it was
\* StartRegion, however many of either kind ran before; StartRegion on an
\* Active block and StopRegion on an Inactive one leave the heap as it is,
\* and one StopRegion undoes any number of StartRegions.
C24_LastEventWins ==
    \A t \in Tids :
        /\ Active(t) <=> (ev[t] = "StartRegion")
        /\ tls[t] # 0 =>
              LET st == tls[t]
              IN  /\ Active(t) => StartRegion(heap, st) = heap
                  /\ ~Active(t) => StopRegion(heap, st) = heap
                  /\ StartRegion(StartRegion(heap, st), st)
                        = StartRegion(heap, st)
                  /\ StopRegion(StopRegion(heap, st), st)
                        = StopRegion(heap, st)
                  /\ ~StopRegion(StartRegion(StartRegion(heap, st), st),
                                 st)[st].active

\* Address mode: a thread entered the target twice, so StartRegion ran
\* twice, the second time on an Active block; the one StopRegion of a RET
\* then left it Inactive, one entry deep in the target.
C24_Witness ==
    /\ g_mode = "ADDRESS" /\ g_start_addr = 16
    /\ \E t \in Tids :
          /\ stack[t] = <<"start_roi">>
          /\ ex[t].add_rr = 2 /\ ex[t].sub_rm = 0
          /\ ev[t] = "StopRegion" /\ ~Active(t)

\* C25: address mode: when the instruction at the target address is itself
\* a classified instruction, StartRegion runs before its counter stub, so
\* every execution of it leaves the thread Active and is counted, the one
\* that opens the region included.
C25_ActivatingExecutionCounted ==
    [][g_mode = "ADDRESS" =>
         \A t \in Tids, ins \in Program.ins :
            (/\ Executes(t, ins) /\ ins.addr = g_start_addr
             /\ BucketOf(ins) # NoCall) =>
               /\ Active(t)'
               /\ heap'[tls[t]].cnts =
                     [heap[tls[t]].cnts EXCEPT ![BucketOf(ins)] = @ + 1]
               /\ ci'[t] = [ci[t] EXCEPT ![BucketOf(ins)] = @ + 1]
    ]_vars

\* Address mode with the ADD of start_roi at the target: the first
\* instruction a thread executed was that ADD, its block was Inactive until
\* then, and the execution is in its counters.
C25_Witness ==
    /\ g_mode = "ADDRESS" /\ g_start_addr = 16
    /\ \E t \in Tids :
          /\ stack[t] = <<"start_roi">> /\ ev[t] = "StartRegion"
          /\ ex[t] = [ZeroCnts EXCEPT !.add_rr = 1]
          /\ heap[tls[t]] = [cnts |-> [ZeroCnts EXCEPT !.add_rr = 1],
                              active |-> TRUE, freed |-> 0]
====
